---- MODULE Spec2Model ----
(***************************************************************************)
(* Model of twitch-gift-farm.                                              *)
(*                                                                         *)
(*  - get-streams (src/src/bin/get-streams.rs): the harvester that fans    *)
(*    out page fetches over the top games, and the merge of the harvested  *)
(*    names into the channel list of the settings file.                    *)
(*  - twitch-gift-farm (src/src/bin/twitch-gift-farm.rs) and its older     *)
(*    single-file variant (src/src/main.rs): the chat bot that connects,   *)
(*    joins the configured channels, and handles inbound messages.         *)
(*                                                                         *)
(* Channel names are sequences of bytes, compared byte-wise as Rust        *)
(* compares str.                                                           *)
(***************************************************************************)
EXTENDS Naturals, Sequences, FiniteSets

VARIABLES
    \* ---- get-streams ----
    hpc,             \* position of get-streams' main
    games,           \* the games returned by get_top_games
    arrived,         \* the outputs try_join_all holds: <<game index, page>> -> names
    failedPage,      \* the page fetch that resolved to Err, NoPage if none did
    arrivedAtError,  \* how many outputs were held when the failing fetch resolved
    requests,        \* the HTTP requests issued so far: <<endpoint, game, offset, limit>>
    channels,        \* main's local `channels` (the harvest result)
    harvested,       \* what get_streams returned (`channels` is drained by append)
    loaded,          \* the channel list Config::load read
    config_channels, \* config.channels of the loaded Config
    old_count,       \* main's local `old_count`
    reported,        \* the "Saving {} new channels" count
    saved,           \* what Config::save made of the settings file, NotSaved before
    \* ---- the bot ----
    variant,         \* "bin" (src/bin/twitch-gift-farm.rs) or "main" (src/main.rs)
    bpc,             \* position of the bot
    bot_channels,    \* Bot.channels
    joinIdx,         \* join_channels: position of the for loop in the cloned list
    pendingJoin,     \* the position whose join races the timer, 0 if none does
    attempts,        \* this pass: the "Joining: {}" lines, in order
    outcomes,        \* this pass: how each attempt resolved
    joinErrors,      \* this pass: the "Error while joining" lines, <<channel, cause>>
    lateAcks,        \* channels whose abandoned join the server may still acknowledge
    connects,        \* AsyncRunner::connect calls so far
    eofs,            \* Status::Eof messages handled so far
    lastEvent,       \* what the last handle_message took from next_message
    giftLog,         \* the gift line the last handle_message logged, NoLine if none
    exit             \* why the run ended, "" while it has not

harvestVars == <<hpc, games, arrived, failedPage, arrivedAtError, requests, channels,
                 harvested, loaded,
                 config_channels, old_count, reported, saved>>

botVars == <<variant, bpc, bot_channels, joinIdx, pendingJoin, attempts, outcomes,
             joinErrors, lateAcks, connects, eofs, lastEvent, giftLog, exit>>

vars == <<harvestVars, botVars>>

----------------------------------------------------------------------------
(* Bounds of the model *)

MaxGames == 1
MaxListLen == 3
MaxChannels == 3
MaxEofs == 2

(* Program constants *)

LastPage == 9
PageLimit == 100
U16 == 65536

NoPage == <<0, 0>>
NotSaved == <<"not saved">>
Truncated == <<"truncated">>
Saved(list) == <<"saved", list>>
NoCount == <<"no count">>

----------------------------------------------------------------------------
(* Byte strings *)

\* the names the upstream and the settings file are drawn from:
\* "A", "a", "a " and "ab" (case and whitespace matter)
Names == {<<65>>, <<97>>, <<97, 32>>, <<97, 98>>}

RECURSIVE StrLess(_, _)
StrLess(a, b) ==
    IF b = <<>> THEN FALSE
    ELSE IF a = <<>> THEN TRUE
    ELSE IF Head(a) < Head(b) THEN TRUE
    ELSE IF Head(b) < Head(a) THEN FALSE
    ELSE StrLess(Tail(a), Tail(b))

RECURSIVE SeqsUpTo(_, _)
SeqsUpTo(S, n) ==
    IF n = 0 THEN {<<>>}
    ELSE LET shorter == SeqsUpTo(S, n - 1)
         IN  shorter \cup {Append(s, x) : s \in shorter, x \in S}

----------------------------------------------------------------------------
(* Vec::sort and Vec::dedup *)

RECURSIVE Insert(_, _)
Insert(x, s) ==
    IF s = <<>> THEN <<x>>
    ELSE IF StrLess(x, Head(s)) THEN <<x>> \o s
    ELSE <<Head(s)>> \o Insert(x, Tail(s))

\* a sort that leaves the list as it is
SortSkipped(s) == s

RECURSIVE Sort(_)
Sort(s) == IF s = <<>> THEN <<>> ELSE Insert(Head(s), Sort(Tail(s)))

\* a dedup that removes nothing
DedupSkipped(s) == s

\* a name with its ASCII upper-case letters put in lower case
Lowered(name) == [i \in 1 .. Len(name) |-> IF name[i] \in 65 .. 90 THEN name[i] + 32 ELSE name[i]]

\* a dedup that takes names that differ only in case for equal
RECURSIVE DedupIgnoringCase(_)
DedupIgnoringCase(s) ==
    IF Len(s) <= 1 THEN s
    ELSE LET kept == DedupIgnoringCase(SubSeq(s, 1, Len(s) - 1))
         IN  IF Lowered(s[Len(s)]) = Lowered(kept[Len(kept)]) THEN kept
             ELSE Append(kept, s[Len(s)])

\* Vec::dedup keeps the first element of every run of equal elements
RECURSIVE Dedup(_)
Dedup(s) ==
    IF Len(s) <= 1 THEN s
    ELSE LET kept == Dedup(SubSeq(s, 1, Len(s) - 1))
         IN  IF s[Len(s)] = kept[Len(kept)] THEN kept ELSE Append(kept, s[Len(s)])

\* config.channels.append(&mut channels); .sort(); .dedup()
MergeChannels(existing, incoming) == Dedup(Sort(existing \o incoming))

\* usize subtraction: a debug build panics on underflow, a release build wraps
\* to usize::MAX + 1 - (b - a), written <<"wrapped", b - a>>
UsizeSub(a, b) == IF a >= b THEN {<<"usize", a - b>>} ELSE {<<"panic">>, <<"wrapped", b - a>>}

----------------------------------------------------------------------------
(* The upstream catalog *)

\* the ranking of games the upstream holds; a response is a prefix of it
Ranking == <<"X", "Y", "Z">>

\* the names of the streams of `game` at `offset`: duplicates occur within a
\* game and across games
Upstream(game, offset) ==
    IF game = "X" THEN
        IF offset = 0 THEN <<(<<97, 98>>), (<<65>>)>>
        ELSE IF offset = 100 THEN <<(<<97, 32>>)>>
        ELSE IF offset = 900 THEN <<(<<65>>)>>
        ELSE <<>>
    ELSE IF game = "Y" THEN
        IF offset = 0 THEN <<(<<97>>)>>
        ELSE IF offset = 300 THEN <<(<<97, 98>>)>>
        ELSE IF offset = 900 THEN <<(<<97, 32>>), (<<97>>)>>
        ELSE <<>>
    ELSE IF offset = 200 THEN <<(<<65>>), (<<65>>)>>
    ELSE <<>>

----------------------------------------------------------------------------
(* get-streams *)

Pages == 0 .. LastPage

\* an offset computed in 8 bits
OffsetU8(i) == (i * 100) % 256

\* `let offset = i * 100` in u16
Offset(i) == (i * 100) % U16

RECURSIVE Flatten(_)
Flatten(ss) == IF ss = <<>> THEN <<>> ELSE Head(ss) \o Flatten(Tail(ss))

\* the ten page futures of one game, in the order they are pushed
PageRequests(game) ==
    [k \in 1 .. LastPage + 1 |-> <<"streams", game, Offset(k - 1), PageLimit>>]

\* a flattening that takes the pages of game g from the last to the first
StreamsForGameReversed(held, g) ==
    Flatten([k \in 1 .. LastPage + 1 |-> held[<<g, LastPage + 1 - k>>]])

\* get_all_streams_for_game: the outputs of the ten page futures of game g,
\* flattened in the order of the futures
StreamsForGame(held, g) ==
    Flatten([k \in 1 .. LastPage + 1 |-> held[<<g, k - 1>>]])

\* get_streams: the game results flattened in the order of the games
AllStreams(held, gs) ==
    Flatten([g \in 1 .. Len(gs) |-> StreamsForGame(held, g)])

Pending == {p \in (1 .. Len(games)) \X Pages : p \notin DOMAIN arrived}

NoOutputs == [p \in {} |-> <<>>]

InitHarvest ==
    /\ hpc = "top_games"
    /\ games = <<>>
    /\ arrived = NoOutputs
    /\ failedPage = NoPage
    /\ arrivedAtError = 0
    /\ requests = <<(<<"games/top", "", 0, PageLimit>>)>>
    /\ channels = <<>>
    /\ harvested = <<>>
    /\ loaded = <<>>
    /\ config_channels = <<>>
    /\ old_count = 0
    /\ reported = NoCount
    /\ saved = NotSaved

\* get_top_games returns Ok: every game's ten page fetches are started
TopGamesOk ==
    /\ hpc = "top_games"
    /\ \E n \in 0 .. MaxGames :
          /\ games' = SubSeq(Ranking, 1, n)
          /\ requests' = requests \o Flatten([g \in 1 .. n |-> PageRequests(Ranking[g])])
    /\ hpc' = "fetching"
    /\ UNCHANGED <<botVars, harvested, loaded, arrived, failedPage, arrivedAtError,
                   channels, config_channels, old_count, reported, saved>>

\* get_top_games returns Err: `?` in get_streams, then `?` in main
TopGamesErr ==
    /\ hpc = "top_games"
    /\ hpc' = "failed"
    /\ UNCHANGED <<botVars, harvested, loaded, games, arrived, failedPage, arrivedAtError,
                   requests, channels, config_channels, old_count, reported, saved>>

\* one get_streams_page future resolves to Ok; try_join_all keeps its output
PageOk ==
    /\ hpc = "fetching"
    /\ \E p \in Pending :
          arrived' = [q \in DOMAIN arrived \cup {p} |->
                        IF q = p THEN Upstream(games[p[1]], Offset(p[2])) ELSE arrived[q]]
    /\ UNCHANGED <<botVars, harvested, loaded, hpc, games, failedPage, arrivedAtError,
                   requests, channels, config_channels, old_count, reported, saved>>

\* a harvest that tolerates a failing page: its output counts as empty
PageErrTolerated ==
    /\ hpc = "fetching"
    /\ \E p \in Pending :
          /\ failedPage' = p
          /\ arrived' = [q \in DOMAIN arrived \cup {p} |->
                           IF q = p THEN <<>> ELSE arrived[q]]
    /\ arrivedAtError' = Cardinality(DOMAIN arrived)
    /\ UNCHANGED <<botVars, harvested, loaded, hpc, games, requests, channels,
                   config_channels, old_count, reported, saved>>

\* one get_streams_page future resolves to Err: try_join_all returns it at once and
\* drops the outputs it holds; `?` carries it out of get_streams and main
PageErr ==
    /\ hpc = "fetching"
    /\ \E p \in Pending : failedPage' = p
    /\ arrivedAtError' = Cardinality(DOMAIN arrived)
    /\ arrived' = NoOutputs
    /\ hpc' = "failed"
    /\ UNCHANGED <<botVars, harvested, loaded, games, requests, channels, config_channels,
                   old_count, reported, saved>>

\* every future has resolved to Ok: get_streams returns the flattened names
HarvestDone ==
    /\ hpc = "fetching"
    /\ Pending = {}
    /\ channels' = AllStreams(arrived, games)
    /\ harvested' = channels'
    /\ arrived' = NoOutputs
    /\ hpc' = "harvested"
    /\ UNCHANGED <<botVars, loaded, games, failedPage, arrivedAtError, requests,
                   config_channels, old_count, reported, saved>>

\* Config::load returns Ok with the channel list of the settings file
LoadOk ==
    /\ hpc = "harvested"
    /\ \E existing \in SeqsUpTo(Names, MaxListLen) :
          /\ loaded' = existing
          /\ config_channels' = existing
          /\ old_count' = Len(existing)
    /\ hpc' = "loaded"
    /\ UNCHANGED <<botVars, harvested, games, arrived, failedPage, arrivedAtError,
                   requests, channels, reported, saved>>

\* Config::load returns Err (no file, or unparsable)
LoadErr ==
    /\ hpc = "harvested"
    /\ hpc' = "failed"
    /\ UNCHANGED <<botVars, harvested, loaded, games, arrived, failedPage, arrivedAtError,
                   requests, channels, config_channels, old_count, reported, saved>>

\* append, sort, dedup, the "Saving {} new channels" line, Config::save
MergeAndSave ==
    /\ hpc = "loaded"
    /\ LET merged == MergeChannels(config_channels, channels)
       IN  /\ config_channels' = merged
           /\ channels' = <<>>
           /\ \E n \in UsizeSub(Len(merged), old_count) :
                 \/ /\ n = <<"panic">>
                    /\ reported' = reported
                    /\ saved' = saved
                    /\ hpc' = "panicked"
                 \/ /\ n # <<"panic">>
                    /\ reported' = n
                    /\ \/ saved' = Saved(merged) /\ hpc' = "saved"
                       \/ saved' \in {saved, Truncated} /\ hpc' = "failed"
    /\ UNCHANGED <<botVars, harvested, loaded, games, arrived, failedPage, arrivedAtError,
                   requests, old_count>>

NextHarvest ==
    \/ TopGamesOk
    \/ TopGamesErr
    \/ PageOk
    \/ PageErr
    \/ HarvestDone
    \/ LoadOk
    \/ LoadErr
    \/ MergeAndSave


----------------------------------------------------------------------------
(* The bot: notices *)

None == <<>>
Some(x) == <<x>>

\* Option::unwrap_or
UnwrapOr(opt, default) == IF opt = None THEN default ELSE opt[1]

\* Option::or
OrElse(opt, other) == IF opt = None THEN other ELSE opt

\* "bob", "Bob": the configured name and one differing from it in case only
Bob == <<98, 111, 98>>
BobCapital == <<66, 111, 98>>

\* UserConfig.name, from Config.username
ConfigName == Bob

\* str::replace("\\s", " "): every non-overlapping occurrence of the bytes
\* 92 115, scanning from the left, becomes the byte 32
RECURSIVE ReplaceEscapedSpace(_)
ReplaceEscapedSpace(s) ==
    IF s = <<>> THEN <<>>
    ELSE IF Len(s) >= 2 /\ s[1] = 92 /\ s[2] = 115
         THEN <<32>> \o ReplaceEscapedSpace(SubSeq(s, 3, Len(s)))
    ELSE <<Head(s)>> \o ReplaceEscapedSpace(Tail(s))

\* b"unknown"
UnknownLabel == <<117, 110, 107, 110, 111, 119, 110>>

sub_gift_to_string(notice) ==
    IF notice = Some("SubGift") THEN "sub gift"
    ELSE IF notice = Some("AnonSubGift") THEN "anonymous sub gift"
    ELSE "unknown"

sub_plan_to_string(plan) ==
    IF plan = Some("Prime") THEN "prime"
    ELSE IF plan = Some("Tier1") THEN "tier1"
    ELSE IF plan = Some("Tier2") THEN "tier2"
    ELSE IF plan = Some("Tier3") THEN "tier3"
    ELSE "Unknown"

\* the notices the server sends: the tags the handler reads
Recipients == {None, Some(Bob), Some(BobCapital)}
NoticeTypes == {None, Some("SubGift"), Some("AnonSubGift")}
SubPlans == {None, Some("Tier1")}
\* no label, and "a\sb\s"
PlanNames == {None, Some(<<97, 92, 115, 98, 92, 115>>)}

Notices ==
    [msg_param_recipient_user_name : Recipients,
     msg_param_recipient_display_name : {None},
     msg_id : NoticeTypes,
     msg_param_sub_plan : SubPlans,
     msg_param_sub_plan_name : PlanNames,
     display_name : {None},
     login : {Some("gifter")},
     channel : {"#a"}]

Dropped == <<"dropped">>
Panic == <<"panic">>
Logged(line) == <<"logged", line>>

\* src/bin/twitch-gift-farm.rs; dbg! writes the comparison to stderr, not to the log
handle_user_notice_bin(name, msg) ==
    IF msg.msg_param_recipient_user_name = None THEN Dropped
    ELSE IF msg.msg_param_recipient_user_name[1] # name THEN Dropped
    ELSE Logged([recipient |-> UnwrapOr(msg.msg_param_recipient_display_name, "unkown"),
                 channel |-> msg.channel,
                 sub_plan |-> sub_plan_to_string(msg.msg_param_sub_plan),
                 gift_type |-> sub_gift_to_string(msg.msg_id),
                 display_name |-> UnwrapOr(OrElse(msg.display_name, msg.login), "anonymous"),
                 sub_plan_name |->
                     ReplaceEscapedSpace(UnwrapOr(msg.msg_param_sub_plan_name, UnknownLabel))])

\* src/main.rs: no else branch for a missing recipient, and unwrap() on the label
handle_user_notice_main(name, msg) ==
    IF /\ msg.msg_param_recipient_user_name # None
       /\ msg.msg_param_recipient_user_name[1] # name
    THEN Dropped
    ELSE IF msg.msg_param_sub_plan_name = None THEN Panic
    ELSE Logged([channel |-> msg.channel,
                 sub_plan |-> sub_plan_to_string(msg.msg_param_sub_plan),
                 gift_type |-> sub_gift_to_string(msg.msg_id),
                 display_name |-> UnwrapOr(OrElse(msg.display_name, msg.login), "anonymous"),
                 sub_plan_name |-> ReplaceEscapedSpace(msg.msg_param_sub_plan_name[1])])

handle_user_notice(v, name, msg) ==
    IF v = "bin" THEN handle_user_notice_bin(name, msg)
    ELSE handle_user_notice_main(name, msg)

----------------------------------------------------------------------------
(* The bot: session *)

ChannelNames == {"a", "b", "c"}

NoLine == <<"no line">>
Line(fields) == <<"line", fields>>
NoEvent == <<"none">>

\* the harvester's variables while the bot runs, and the bot's while get-streams runs
HarvestOff ==
    /\ hpc = "off"
    /\ games = <<>>
    /\ arrived = NoOutputs
    /\ failedPage = NoPage
    /\ arrivedAtError = 0
    /\ requests = <<>>
    /\ channels = <<>>
    /\ harvested = <<>>
    /\ loaded = <<>>
    /\ config_channels = <<>>
    /\ old_count = 0
    /\ reported = NoCount
    /\ saved = NotSaved

BotOff ==
    /\ variant = "bin"
    /\ bpc = "off"
    /\ bot_channels = <<>>
    /\ joinIdx = 0
    /\ pendingJoin = 0
    /\ attempts = <<>>
    /\ outcomes = <<>>
    /\ joinErrors = <<>>
    /\ lateAcks = {}
    /\ connects = 0
    /\ eofs = 0
    /\ lastEvent = NoEvent
    /\ giftLog = NoLine
    /\ exit = ""

\* main: the settings are loaded, Bot::new is about to connect
InitBot ==
    /\ variant \in {"bin", "main"}
    /\ bpc = "connecting"
    /\ bot_channels \in SeqsUpTo(ChannelNames, MaxChannels)
    /\ joinIdx = 0
    /\ pendingJoin = 0
    /\ attempts = <<>>
    /\ outcomes = <<>>
    /\ joinErrors = <<>>
    /\ lateAcks = {}
    /\ connects = 0
    /\ eofs = 0
    /\ lastEvent = NoEvent
    /\ giftLog = NoLine
    /\ exit = ""

\* AsyncRunner::connect returns Ok, in Bot::new or in reconnect: the runner is
\* replaced and join_channels starts on a clone of self.channels
ConnectOk ==
    /\ bpc = "connecting"
    /\ connects' = connects + 1
    /\ bpc' = "joining"
    /\ joinIdx' = 1
    /\ pendingJoin' = 0
    /\ attempts' = <<>>
    /\ outcomes' = <<>>
    /\ joinErrors' = <<>>
    /\ lateAcks' = {}
    /\ UNCHANGED <<harvestVars, variant, bot_channels, eofs, lastEvent, giftLog, exit>>

\* a failed connect that is tried again
ConnectErrRetried ==
    /\ bpc = "connecting"
    /\ connects <= MaxEofs
    /\ connects' = connects + 1
    /\ UNCHANGED <<harvestVars, variant, bpc, bot_channels, joinIdx, pendingJoin, attempts,
                   outcomes, joinErrors, lateAcks, eofs, lastEvent, giftLog, exit>>

\* AsyncRunner::connect returns Err: `?` in Bot::new and main, or `?` in reconnect,
\* handle_message, main_loop, run and main
ConnectErr ==
    /\ bpc = "connecting"
    /\ connects' = connects + 1
    /\ bpc' = "exited"
    /\ exit' = "connect error"
    /\ UNCHANGED <<harvestVars, variant, bot_channels, joinIdx, pendingJoin, attempts,
                   outcomes, joinErrors, lateAcks, eofs, lastEvent, giftLog>>

\* a loop that sends the next JOIN while the one before it is still pending
JoinStartEager ==
    /\ bpc = "joining"
    /\ Len(attempts) < Len(bot_channels)
    /\ attempts' = Append(attempts, bot_channels[Len(attempts) + 1])
    /\ pendingJoin' = Len(attempts) + 1
    /\ UNCHANGED <<harvestVars, variant, bpc, bot_channels, joinIdx, outcomes, joinErrors,
                   lateAcks, connects, eofs, lastEvent, giftLog, exit>>

\* the loop takes the next channel: "Joining: {}", then join(..).or(timer) is awaited
JoinStart ==
    /\ bpc = "joining"
    /\ pendingJoin = 0
    /\ joinIdx <= Len(bot_channels)
    /\ attempts' = Append(attempts, bot_channels[joinIdx])
    /\ pendingJoin' = joinIdx
    /\ UNCHANGED <<harvestVars, variant, bpc, bot_channels, joinIdx, outcomes, joinErrors,
                   lateAcks, connects, eofs, lastEvent, giftLog, exit>>

\* the join resolves to Ok before the timer
JoinAck ==
    /\ bpc = "joining"
    /\ pendingJoin # 0
    /\ outcomes' = Append(outcomes, "ack")
    /\ joinIdx' = joinIdx + 1
    /\ pendingJoin' = 0
    /\ UNCHANGED <<harvestVars, variant, bpc, bot_channels, attempts, joinErrors, lateAcks,
                   connects, eofs, lastEvent, giftLog, exit>>

\* a join error that is taken for a lost connection
JoinErrReconnects ==
    /\ bpc = "joining"
    /\ pendingJoin # 0
    /\ outcomes' = Append(outcomes, "error")
    /\ joinErrors' = Append(joinErrors, <<bot_channels[pendingJoin], "join error">>)
    /\ pendingJoin' = 0
    /\ bpc' = "connecting"
    /\ UNCHANGED <<harvestVars, variant, bot_channels, joinIdx, attempts, lateAcks, connects,
                   eofs, lastEvent, giftLog, exit>>

\* the join resolves to Err before the timer: "Error while joining"
JoinErr ==
    /\ bpc = "joining"
    /\ pendingJoin # 0
    /\ outcomes' = Append(outcomes, "error")
    /\ joinErrors' = Append(joinErrors, <<bot_channels[pendingJoin], "join error">>)
    /\ joinIdx' = joinIdx + 1
    /\ pendingJoin' = 0
    /\ UNCHANGED <<harvestVars, variant, bpc, bot_channels, attempts, lateAcks, connects,
                   eofs, lastEvent, giftLog, exit>>

\* a timeout that is propagated with `?` and ends the run
JoinTimeoutPropagated ==
    /\ bpc = "joining"
    /\ pendingJoin # 0
    /\ outcomes' = Append(outcomes, "timeout")
    /\ bpc' = "exited"
    /\ exit' = "timed out"
    /\ pendingJoin' = 0
    /\ UNCHANGED <<harvestVars, variant, bot_channels, joinIdx, attempts, joinErrors,
                   lateAcks, connects, eofs, lastEvent, giftLog>>

\* the timer resolves first: the join future is dropped, "Error while joining";
\* the server may still acknowledge the JOIN it was sent
JoinTimeout ==
    /\ bpc = "joining"
    /\ pendingJoin # 0
    /\ outcomes' = Append(outcomes, "timeout")
    /\ joinErrors' = Append(joinErrors, <<bot_channels[pendingJoin], "timed out">>)
    /\ lateAcks' = lateAcks \cup {bot_channels[pendingJoin]}
    /\ joinIdx' = joinIdx + 1
    /\ pendingJoin' = 0
    /\ UNCHANGED <<harvestVars, variant, bpc, bot_channels, attempts, connects, eofs,
                   lastEvent, giftLog, exit>>

\* the loop is over: "Joined all channels", join_channels returns Ok
JoinDone ==
    /\ bpc = "joining"
    /\ pendingJoin = 0
    /\ joinIdx = Len(bot_channels) + 1
    /\ bpc' = "joined"
    /\ UNCHANGED <<harvestVars, variant, bot_channels, joinIdx, pendingJoin, attempts,
                   outcomes, joinErrors, lateAcks, connects, eofs, lastEvent, giftLog,
                   exit>>

\* run (or reconnect and handle_message) returns to main_loop, which awaits
\* next_message; the pass and its locals are over
MainLoop ==
    /\ bpc = "joined"
    /\ bpc' = "running"
    /\ joinIdx' = 0
    /\ attempts' = <<>>
    /\ outcomes' = <<>>
    /\ joinErrors' = <<>>
    /\ UNCHANGED <<harvestVars, variant, bot_channels, pendingJoin, lateAcks, connects,
                   eofs, lastEvent, giftLog, exit>>

\* a late acknowledgment that is taken for a success: the failure is withdrawn
LateAckCounted ==
    /\ bpc \in {"joining", "joined", "running"}
    /\ \E ch \in lateAcks :
          /\ lateAcks' = lateAcks \ {ch}
          /\ joinErrors' = SelectSeq(joinErrors, LAMBDA e : e[1] # ch)
    /\ UNCHANGED <<harvestVars, variant, bpc, bot_channels, joinIdx, pendingJoin, attempts,
                   outcomes, connects, eofs, lastEvent, giftLog, exit>>

\* the acknowledgment of an abandoned join arrives. During a pass the runner
\* takes it while it waits for another channel; in the main loop next_message
\* returns it as Status::Message(Commands::Join), the "ignore the rest" arm
LateAck ==
    /\ bpc \in {"joining", "joined", "running"}
    /\ \E ch \in lateAcks : lateAcks' = lateAcks \ {ch}
    /\ IF bpc = "running"
       THEN lastEvent' = <<"other">> /\ giftLog' = NoLine
       ELSE UNCHANGED <<lastEvent, giftLog>>
    /\ UNCHANGED <<harvestVars, variant, bpc, bot_channels, joinIdx, pendingJoin, attempts,
                   outcomes, joinErrors, connects, eofs, exit>>

\* Status::Message(Commands::UserNotice(..))
RecvUserNotice ==
    /\ bpc = "running"
    /\ \E msg \in Notices :
          LET done == handle_user_notice(variant, ConfigName, msg)
          IN  /\ lastEvent' = <<"notice", msg>>
              /\ giftLog' = IF done[1] = "logged" THEN Line(done[2]) ELSE NoLine
              /\ bpc' = IF done = Panic THEN "panicked" ELSE bpc
              /\ exit' = IF done = Panic THEN "unwrap on None" ELSE exit
    /\ UNCHANGED <<harvestVars, variant, bot_channels, joinIdx, pendingJoin, attempts,
                   outcomes, joinErrors, lateAcks, connects, eofs>>

\* a quit that ends the run with Ok
RecvQuitShutsDown ==
    /\ bpc = "running"
    /\ lastEvent' = <<"quit">>
    /\ giftLog' = NoLine
    /\ bpc' = "exited"
    /\ exit' = "ok"
    /\ UNCHANGED <<harvestVars, variant, bot_channels, joinIdx, pendingJoin, attempts,
                   outcomes, joinErrors, lateAcks, connects, eofs>>

\* Status::Quit => unreachable!("never quit")
RecvQuit ==
    /\ bpc = "running"
    /\ lastEvent' = <<"quit">>
    /\ giftLog' = NoLine
    /\ bpc' = "panicked"
    /\ exit' = "unreachable"
    /\ UNCHANGED <<harvestVars, variant, bot_channels, joinIdx, pendingJoin, attempts,
                   outcomes, joinErrors, lateAcks, connects, eofs>>

\* an EOF that ends the run
RecvEofReturns ==
    /\ bpc = "running"
    /\ eofs < MaxEofs
    /\ lastEvent' = <<"eof">>
    /\ giftLog' = NoLine
    /\ eofs' = eofs + 1
    /\ bpc' = "exited"
    /\ exit' = "eof"
    /\ UNCHANGED <<harvestVars, variant, bot_channels, joinIdx, pendingJoin, attempts,
                   outcomes, joinErrors, lateAcks, connects>>

\* Status::Eof: "received an EOF, reconnecting", then reconnect() connects
RecvEof ==
    /\ bpc = "running"
    /\ eofs < MaxEofs
    /\ lastEvent' = <<"eof">>
    /\ giftLog' = NoLine
    /\ eofs' = eofs + 1
    /\ bpc' = "connecting"
    /\ UNCHANGED <<harvestVars, variant, bot_channels, joinIdx, pendingJoin, attempts,
                   outcomes, joinErrors, lateAcks, connects, exit>>

\* an unexpected event that is taken for a lost connection
RecvOtherReconnects ==
    /\ bpc = "running"
    /\ lastEvent' = <<"other">>
    /\ giftLog' = NoLine
    /\ bpc' = "connecting"
    /\ UNCHANGED <<harvestVars, variant, bot_channels, joinIdx, pendingJoin, attempts,
                   outcomes, joinErrors, lateAcks, connects, eofs, exit>>

\* any other Status::Message(..): ignored
RecvOther ==
    /\ bpc = "running"
    /\ lastEvent' = <<"other">>
    /\ giftLog' = NoLine
    /\ UNCHANGED <<harvestVars, variant, bpc, bot_channels, joinIdx, pendingJoin, attempts,
                   outcomes, joinErrors, lateAcks, connects, eofs, exit>>

\* next_message returns Err: `?` in handle_message, main_loop, run and main
RecvErr ==
    /\ bpc = "running"
    /\ lastEvent' = <<"error">>
    /\ giftLog' = NoLine
    /\ bpc' = "exited"
    /\ exit' = "receive error"
    /\ UNCHANGED <<harvestVars, variant, bot_channels, joinIdx, pendingJoin, attempts,
                   outcomes, joinErrors, lateAcks, connects, eofs>>

NextBot ==
    \/ ConnectOk
    \/ ConnectErr
    \/ JoinStart
    \/ JoinAck
    \/ JoinErr
    \/ JoinTimeout
    \/ JoinDone
    \/ MainLoop
    \/ LateAck
    \/ RecvUserNotice
    \/ RecvQuit
    \/ RecvEof
    \/ RecvOther
    \/ RecvErr

----------------------------------------------------------------------------
(* Specifications *)

\* get-streams, from the start of main
InitGetStreams == InitHarvest /\ BotOff

SpecHarvest == InitGetStreams /\ [][NextHarvest]_vars

\* get-streams from the return of get_streams, for any harvested list
InitMerge ==
    /\ hpc = "harvested"
    /\ games = <<>>
    /\ arrived = NoOutputs
    /\ failedPage = NoPage
    /\ arrivedAtError = 0
    /\ requests = <<>>
    /\ channels \in SeqsUpTo(Names, MaxListLen)
    /\ harvested = channels
    /\ loaded = <<>>
    /\ config_channels = <<>>
    /\ old_count = 0
    /\ reported = NoCount
    /\ saved = NotSaved

NextMerge ==
    \/ LoadOk
    \/ LoadErr
    \/ MergeAndSave

InitGetStreamsMerge == InitMerge /\ BotOff

SpecMerge == InitGetStreamsMerge /\ [][NextMerge]_vars

\* the bot, from the start of Bot::new
InitGiftFarm == InitBot /\ HarvestOff

SpecBot == InitGiftFarm /\ [][NextBot]_vars

\* a join attempt always resolves (the timer fires if nothing else does), and
\* the for loop and the return to main_loop await nothing
PassStep == JoinStart \/ JoinAck \/ JoinErr \/ JoinTimeout \/ JoinDone \/ MainLoop

SpecBotFair == SpecBot /\ WF_vars(PassStep)

----------------------------------------------------------------------------
(* Claims about get-streams *)

\* C1: once a page fetch of any game has resolved to an error, whatever fetches
\* resolved before it, get-streams has failed: the harvest yields no channel
\* name, the settings are never loaded or merged into, and nothing is saved.
C1_HarvestAllOrNothing ==
    failedPage # NoPage =>
        /\ hpc = "failed"
        /\ arrived = NoOutputs
        /\ channels = <<>>
        /\ harvested = <<>>
        /\ config_channels = <<>>
        /\ reported = NoCount
        /\ saved = NotSaved

\* a page fetch failed after nine others of the harvest had resolved to Ok
C1_Witness ==
    /\ hpc = "failed"
    /\ failedPage # NoPage
    /\ arrivedAtError = LastPage

\* byte-wise order of two names, by their first differing position
BytewiseLess(a, b) ==
    \E k \in 1 .. Len(b) :
        /\ \A j \in 1 .. k - 1 : j <= Len(a) /\ a[j] = b[j]
        /\ Len(a) < k \/ a[k] < b[k]

StrictlyAscending(list) ==
    \A i \in 1 .. Len(list) - 1 : BytewiseLess(list[i], list[i + 1])

\* the merge has run: sort and dedup are done before the count is logged
Merged == hpc \in {"saved", "panicked"} \/ (hpc = "failed" /\ reported # NoCount)

\* C9: after the merge, whatever the loaded and the harvested lists were, the
\* channel list is in ascending byte-wise order with no two equal entries, and
\* so is the list that was saved.
C9_MergedSortedUnique ==
    /\ Merged => StrictlyAscending(config_channels)
    /\ saved[1] = "saved" => StrictlyAscending(saved[2])

\* an unsorted loaded list with a duplicate was merged with an unsorted
\* harvested list with a duplicate, and saved
C9_Witness ==
    /\ hpc = "saved"
    /\ loaded = <<(<<97, 98>>), (<<65>>), (<<97, 98>>)>>
    /\ harvested = <<(<<97, 32>>), (<<65>>), (<<97, 32>>)>>
    /\ saved = Saved(<<(<<65>>), (<<97, 32>>), (<<97, 98>>)>>)

\* C10: merging the harvested list into the merged channel list once more
\* gives the merged channel list: merge(merge(A, B), B) = merge(A, B).
C10_MergeIdempotent ==
    Merged => MergeChannels(config_channels, harvested) = config_channels

\* a harvested list with a duplicate and a name the loaded list lacks was merged
C10_Witness ==
    /\ hpc = "saved"
    /\ loaded = <<(<<97>>), (<<65>>)>>
    /\ harvested = <<(<<97, 98>>), (<<97>>), (<<97, 98>>)>>
    /\ config_channels = <<(<<65>>), (<<97>>), (<<97, 98>>)>>

----------------------------------------------------------------------------
(* Claims about the bot *)

\* the "Error while joining" lines a pass over chs with these outcomes logs
RECURSIVE FailuresOf(_, _)
FailuresOf(chs, outs) ==
    IF outs = <<>> THEN <<>>
    ELSE LET n == Len(outs)
             before == FailuresOf(chs, SubSeq(outs, 1, n - 1))
         IN  IF outs[n] = "ack" THEN before
             ELSE Append(before, <<chs[n], IF outs[n] = "timeout" THEN "timed out"
                                           ELSE "join error">>)

PassRecord ==
    bpc \in {"joining", "joined"} =>
        /\ attempts = SubSeq(bot_channels, 1, Len(attempts))
        /\ Len(attempts) = Len(outcomes) + (IF pendingJoin = 0 THEN 0 ELSE 1)
        /\ joinErrors = FailuresOf(bot_channels, outcomes)
        /\ bpc = "joined" => attempts = bot_channels /\ Len(outcomes) = Len(bot_channels)

\* C2: in a pass the channels are attempted in list order, each entry once; the
\* failures logged are exactly those of the attempts that erred or timed out,
\* for their channels; no outcome of an attempt takes the bot out of the pass,
\* and every pass that starts completes, and the bot enters Running.
C2_JoinFailuresNeverAbort ==
    /\ []PassRecord
    /\ [][/\ bpc = "joining" => bpc' \in {"joining", "joined"}
          /\ bpc = "joined" => bpc' \in {"joined", "running"}]_vars
    /\ (bpc = "joining" ~> bpc = "running")

\* channels [a, b, c], b timed out: three attempts, one failure logged, for b
C2_Witness ==
    /\ bpc = "joined"
    /\ bot_channels = <<"a", "b", "c">>
    /\ attempts = <<"a", "b", "c">>
    /\ outcomes = <<"ack", "timeout", "ack">>
    /\ joinErrors = <<(<<"b", "timed out">>)>>

\* a step in which the timer wins the race of the pending join
TimerWins == outcomes' = Append(outcomes, "timeout")

\* a step in which the acknowledgment of an abandoned join arrives
AckArrivesLate == lateAcks' # lateAcks /\ lateAcks' \subseteq lateAcks /\ connects' = connects

\* C3: when the timer wins, the channel is logged as failed and the loop goes
\* on to the next channel; when the acknowledgment of an abandoned join arrives
\* later, no failure is withdrawn, no attempt is made or resolved, nothing is
\* logged as a gift, and the bot stays where it is.
C3_LateAckDiscarded ==
    [][/\ TimerWins =>
            /\ joinErrors' = Append(joinErrors, <<bot_channels[pendingJoin], "timed out">>)
            /\ joinIdx' = pendingJoin + 1
            /\ pendingJoin' = 0
            /\ bpc' = "joining"
       /\ AckArrivesLate =>
            /\ UNCHANGED <<bpc, bot_channels, joinIdx, pendingJoin, attempts, outcomes,
                           joinErrors, connects, eofs, exit>>
            /\ giftLog' = NoLine]_vars

\* b timed out, the pass went on, and the acknowledgment for b has arrived
\* since: b is still the one failure logged
C3_Witness ==
    /\ bpc = "joining"
    /\ bot_channels = <<"a", "b", "c">>
    /\ outcomes = <<"ack", "timeout">>
    /\ pendingJoin = 3
    /\ lateAcks = {}
    /\ joinErrors = <<(<<"b", "timed out">>)>>

\* a step in which handle_message takes a Status::Eof
EofTaken == eofs' = eofs + 1

\* C4: an EOF taken in Running leads at once to a connect attempt and does not
\* end the run; a connect that succeeds starts a pass at the first channel of
\* the same list; a pass that is over covered the whole list and is followed by
\* Running; the channel list never changes. This holds for each EOF in turn.
C4_EofReconnects ==
    /\ [][/\ EofTaken => bpc = "running" /\ bpc' = "connecting" /\ exit' = ""
          /\ bpc = "connecting" /\ bpc' # "exited" =>
                /\ bpc' = "joining"
                /\ connects' = connects + 1
                /\ joinIdx' = 1
                /\ pendingJoin' = 0
                /\ attempts' = <<>>
          /\ bpc = "joined" => bpc' \in {"joined", "running"}
          /\ bot_channels' = bot_channels]_vars
    /\ [](bpc = "joined" => attempts = bot_channels)
    /\ [](eofs > 0 /\ bpc \in {"exited", "panicked"} /\ lastEvent = <<"eof">> =>
              exit = "connect error")

\* the second EOF in a row was followed by a third connect and a full pass
C4_Witness ==
    /\ eofs = 2
    /\ connects = 3
    /\ bpc = "joined"
    /\ bot_channels = <<"a", "b", "c">>
    /\ attempts = bot_channels
    /\ lastEvent = <<"eof">>

\* C5: a connect that does not succeed, at startup or after an EOF, ends the
\* run with the connect error, and nothing happens after the run has ended: no
\* connect, no join, no receive.
C5_ConnectFailureFatal ==
    /\ [][/\ bpc = "connecting" /\ bpc' # "joining" =>
                bpc' = "exited" /\ exit' = "connect error" /\ connects' = connects + 1
          /\ bpc # "exited"]_vars
    /\ [](exit = "connect error" => bpc = "exited")

\* the reconnect after an EOF failed and the run ended
C5_Witness ==
    /\ bpc = "exited"
    /\ exit = "connect error"
    /\ eofs = 1
    /\ connects = 2

\* C6 as claimed: an error of next_message leaves the run alive, on the
\* reconnect path, and the run ends only by a failed connect.
C6_RecvErrorReconnects ==
    /\ lastEvent = <<"error">> => bpc \in {"connecting", "joining", "joined", "running"}
    /\ bpc = "exited" => exit = "connect error"

IsNotice == lastEvent[1] = "notice"

\* C7 as claimed: a notice without a recipient is never logged and does not
\* crash the bot.
C7_NoRecipientNeverLogged ==
    IsNotice /\ lastEvent[2].msg_param_recipient_user_name = None =>
        giftLog = NoLine /\ bpc # "panicked"

\* C8 as claimed: a notice whose recipient is not exactly the configured name is
\* never logged, and a gift line is logged only for a notice whose recipient is
\* the configured name.
C8_OnlyExactRecipientLogged ==
    /\ IsNotice /\ lastEvent[2].msg_param_recipient_user_name # None
                /\ lastEvent[2].msg_param_recipient_user_name # Some(ConfigName) =>
           giftLog = NoLine
    /\ giftLog # NoLine =>
           IsNotice /\ lastEvent[2].msg_param_recipient_user_name = Some(ConfigName)

----------------------------------------------------------------------------
(* Claims about the merge count and the merged set *)

\* the names of a list, as a set
NamesOf(list) == {list[i] : i \in 1 .. Len(list)}

\* C11: the count that get-streams reports after a merge is the length of the
\* merged list minus the length of the list that was loaded, whatever the
\* loaded and the harvested lists were; the step that merges always reports.
C11_NetNewCount ==
    Merged =>
        /\ hpc # "panicked"
        /\ reported = <<"usize", Len(config_channels) - Len(loaded)>>

\* C18: after the merge the names of the channel list are exactly the names
\* of the loaded list together with the names of the harvested list, names
\* that differ in case or in a trailing space being different names; the
\* saved list holds the same names.
C18_MergedSetIsUnion ==
    /\ Merged => NamesOf(config_channels) = NamesOf(loaded) \cup NamesOf(harvested)
    /\ saved[1] = "saved" => NamesOf(saved[2]) = NamesOf(loaded) \cup NamesOf(harvested)

\* "A" was loaded, "a" and "a " were harvested (one of them twice), and the
\* three names were saved
C18_Witness ==
    /\ hpc = "saved"
    /\ loaded = <<(<<65>>)>>
    /\ harvested = <<(<<97, 32>>), (<<97>>), (<<97, 32>>)>>
    /\ saved = Saved(<<(<<65>>), (<<97>>), (<<97, 32>>)>>)

\* a list without two equal entries
DuplicateFree(list) == Cardinality(NamesOf(list)) = Len(list)

\* C19: the subtraction of the loaded length from the merged length never
\* goes below zero, whatever list was loaded (one with equal entries
\* included), and when the loaded list has no two equal entries the count
\* is the number of different harvested names that the loaded list lacks.
C19_CountNeverUnderflows ==
    Merged =>
        /\ hpc # "panicked"
        /\ reported[1] = "usize"
        /\ DuplicateFree(loaded) =>
              reported = <<"usize", Cardinality(NamesOf(harvested) \ NamesOf(loaded))>>

----------------------------------------------------------------------------
(* Claims about the plan label, the join pass and the receive loop *)

\* no backslash followed by "s" is left in the label
NoEscapedSpace(label) ==
    \A i \in 1 .. Len(label) - 1 : ~(label[i] = 92 /\ label[i + 1] = 115)

\* C12 as claimed: a notice addressed to the configured name is logged with
\* its plan label in which every "\s" is a space ("a\sb\s" gives "a b "), and
\* a notice without a plan label is logged with the label "unknown" and does
\* not abort the handling of the message.
C12_PlanLabelUnescaped ==
    IsNotice /\ lastEvent[2].msg_param_recipient_user_name = Some(ConfigName) =>
        /\ bpc # "panicked"
        /\ giftLog # NoLine
        /\ lastEvent[2].msg_param_sub_plan_name = None =>
              giftLog[2].sub_plan_name = UnknownLabel
        /\ lastEvent[2].msg_param_sub_plan_name # None =>
              NoEscapedSpace(giftLog[2].sub_plan_name)
        /\ lastEvent[2].msg_param_sub_plan_name = Some(<<97, 92, 115, 98, 92, 115>>) =>
              giftLog[2].sub_plan_name = <<97, 32, 98, 32>>

\* C13: in a pass the joins are attempted in the order of the configured list,
\* one at a time: the attempts made are a prefix of the list, at most one of
\* them has no outcome yet, and it is the last one made, so no attempt starts
\* before the one before it has resolved to a success, an error or a timeout.
C13_OneJoinAtATime ==
    bpc \in {"joining", "joined"} =>
        /\ Len(attempts) <= Len(bot_channels)
        /\ \A i \in 1 .. Len(attempts) : attempts[i] = bot_channels[i]
        /\ Len(outcomes) <= Len(attempts)
        /\ Len(attempts) <= Len(outcomes) + 1
        /\ pendingJoin # 0 <=> Len(attempts) = Len(outcomes) + 1
        /\ pendingJoin # 0 => pendingJoin = Len(attempts)

\* the third join of [c, a, b] is pending, the first erred and the second
\* timed out
C13_Witness ==
    /\ bpc = "joining"
    /\ bot_channels = <<"c", "a", "b">>
    /\ attempts = <<"c", "a", "b">>
    /\ outcomes = <<"error", "timeout">>
    /\ pendingJoin = 3

----------------------------------------------------------------------------
(* Claims about the harvest *)

\* the page results of `game` from `offset` on, by ascending offset
RECURSIVE PagesFrom(_, _)
PagesFrom(game, offset) ==
    IF offset > LastPage * PageLimit THEN <<>>
    ELSE Upstream(game, offset) \o PagesFrom(game, offset + PageLimit)

\* the page results of the games, game after game
RECURSIVE InCategoryOrder(_)
InCategoryOrder(gs) ==
    IF gs = <<>> THEN <<>>
    ELSE PagesFrom(Head(gs), 0) \o InCategoryOrder(Tail(gs))

TimesIssued(req) == Cardinality({i \in 1 .. Len(requests) : requests[i] = req})

\* the requests issued so far to `endpoint`
IssuedTo(endpoint) == {i \in 1 .. Len(requests) : requests[i][1] = endpoint}

\* C15: get-streams issues one request for the ranking of games, with offset 0
\* and limit 100, and for every game of the ranking it received one request
\* for each of the offsets 0, 100, ..., 900 of that game, with limit 100, and
\* no other request; every offset is the product i * 100 itself, which is
\* below 2^16.
C15_RequestsIssued ==
    /\ Cardinality(IssuedTo("games/top")) = 1
    /\ requests[1] = <<"games/top", "", 0, 100>>
    /\ Cardinality(IssuedTo("streams")) = 10 * Len(games)
    /\ Len(requests) = 1 + 10 * Len(games)
    /\ \A g \in 1 .. Len(games) : \A i \in 0 .. 9 :
          /\ TimesIssued(<<"streams", games[g], i * 100, 100>>) = 1
          /\ i * 100 < U16

\* the ranking held game X: the eleventh request is its page at offset 900
C15_Witness ==
    /\ hpc = "fetching"
    /\ games = <<"X">>
    /\ Len(requests) = 11
    /\ requests[2] = <<"streams", "X", 0, 100>>
    /\ requests[11] = <<"streams", "X", 900, 100>>

\* C16: in Running, a step that takes an event other than a user notice, an
\* EOF or a quit leaves the bot running on the same connection with the same
\* channel list and the same record of its pass, logs nothing, and makes no
\* connect and no join attempt.
C16_OtherEventIgnored ==
    [][bpc = "running" /\ lastEvent' = <<"other">> =>
          /\ UNCHANGED <<variant, bpc, bot_channels, connects, eofs, joinIdx, pendingJoin,
                         attempts, outcomes, joinErrors, exit>>
          /\ giftLog' = NoLine]_vars

\* after a reconnect the bot has taken an event of another kind and is still
\* running on its second connection
C16_Witness ==
    /\ bpc = "running"
    /\ lastEvent = <<"other">>
    /\ connects = 2
    /\ eofs = 1
    /\ bot_channels = <<"a", "b">>

\* C17: once a quit has been taken the run has aborted on the assertion that
\* a quit never arrives: it has not returned, with success or with an error,
\* nothing was logged for it, and no connect was made for it.
C17_QuitAborts ==
    lastEvent = <<"quit">> =>
        /\ bpc = "panicked"
        /\ exit = "unreachable"
        /\ connects = eofs + 1
        /\ giftLog = NoLine

\* a quit arrived on the connection made after an EOF
C17_Witness ==
    /\ lastEvent = <<"quit">>
    /\ bpc = "panicked"
    /\ eofs = 1
    /\ connects = 2

\* the connect calls made: those that have returned and the one awaited
ConnectAttempts == connects + (IF bpc = "connecting" THEN 1 ELSE 0)

\* C20: the connect calls made are always one more than the EOFs handled; a
\* connect returns only while the bot is connecting, and the bot starts to
\* connect only at startup or in the step that takes an EOF in Running; while
\* a pass is in progress no step makes a connect or takes an event.
C20_ConnectOnlyOnEof ==
    /\ [](ConnectAttempts = eofs + 1)
    /\ [][/\ connects' # connects => bpc = "connecting" /\ connects' = connects + 1
          /\ bpc' = "connecting" /\ bpc # "connecting" =>
                /\ bpc = "running"
                /\ lastEvent' = <<"eof">>
                /\ eofs' = eofs + 1
          /\ bpc \in {"joining", "joined"} =>
                /\ bpc' # "connecting"
                /\ UNCHANGED <<connects, eofs, lastEvent>>]_vars

\* the pass after the second EOF has had a join error and a join timeout and
\* is complete: three connects were made
C20_Witness ==
    /\ bpc = "joined"
    /\ eofs = 2
    /\ connects = 3
    /\ outcomes = <<"error", "timeout">>

====
